---- MODULE Spec2Model ----
(***************************************************************************)
(* Close-price resolution of add_close_prices_tw.py: TWSE monthly table    *)
(* first, TPEx daily table (cached per ISO date) second, backfill of at    *)
(* most max_backdays days.  The repository holds two copies of the script, *)
(* scripts/ and .github/scripts/; `variant` says which one is running.     *)
(*                                                                         *)
(* Strings the code inspects character by character (stock codes, date and *)
(* price cells) are sequences of one-character strings.  Dates are         *)
(* <<year, month, day>>; an ISO key "YYYY-MM-DD" is the number YYYYMMDD.   *)
(* Prices are whole numbers.                                               *)
(***************************************************************************)
EXTENDS Integers, Sequences, FiniteSets, TLC

\* ------------------------------------------------------------------ state
VARIABLES
    variant,      \* "scripts" or "github": the copy of the script that runs
    maxBack,      \* args.max_backdays
    filesDone,    \* files main() has finished
    pc,           \* "main", "row" (process_csv between rows), "twse", "tpex"
                  \* (get_close_price_for_code before the TWSE / TPEx part of
                  \* iteration i), "ret" (it returned), "crashed" (an exception
                  \* left it and ended the run)
    target,       \* rpt_dt of the file
    rows,         \* the file's stocks, by number in StockList
    codes,        \* process_csv's codes: the code column through _ensure_code
    idx,          \* the row process_csv is at
    cache,        \* tpex_cache: ISO key -> { code : close }
    code,         \* get_close_price_for_code's code
    i,            \* its loop variable
    result,       \* what it returned
    log,          \* the sources it consulted, in order (observation): src "A" or
                  \* "B", the iteration i, has (the answer held the stock's close
                  \* of that day), hit (the script found it), fetched (a request
                  \* went out)
    twseCalls,    \* TWSE requests of the call (observation)
    twseKind,     \* kind of the TWSE answer just handled (observation)
    tpexKind,     \* kind of the TPEx answer just handled (observation)
    fetchCount,   \* TPEx requests of the file per ISO key (observation)
    tpexListed,   \* per ISO key fetched, the stocks TPEx held (observation)
    fetchedEarlier, \* report dates (ISO keys) of the files already finished
                  \* for which TPEx was asked (observation)
    overwrite,    \* args.overwrite_same_day
    changed,      \* process_csv's changed
    lastRow,      \* the row process_csv has just handled: old (the close cell
                  \* before, 0 for NA), cell (after), price and date (what the
                  \* call returned, 0 for None)
    writes,       \* cells of this file whose value process_csv changed
                  \* (observation)
    csvOut,       \* how the last process_csv call ended: written (to_csv ran)
                  \* and returned (its return value)
    manifest,     \* manifest/snapshots.csv of etf_tracker: one record per run
    snapshots,    \* the snapshot files etf_tracker saved, in order (their
                  \* content hashes)
    ledger,       \* ledger/{code}.csv of ledger.py: code -> its rows
    fn,           \* "run" in a run of the script; otherwise the function or
                  \* program that is applied on its own
    fnArg,        \* that function's argument
    fnOut         \* its value, NoOut before it is applied

vars == <<variant, maxBack, filesDone, pc, target, rows, codes, idx, cache, code, i,
          result, log, twseCalls, twseKind, tpexKind, fetchCount, tpexListed, fetchedEarlier,
          overwrite, changed, lastRow, writes, csvOut, manifest, snapshots, ledger,
          fn, fnArg, fnOut>>

\* the files of etf_tracker.py and ledger.py
diskVars == <<manifest, snapshots, ledger>>

\* ------------------------------------------------------------------ bounds
\* largest --max-backdays a run is started with
MaxBackLimit == 2
\* largest number of rows (codes) of one CSV file
MaxRows == 2
\* largest number of rows of the holdings file build_prices reads
MaxHoldings == 2
\* longest text of a code cell normalised twice
MaxTextLen == 5

\* runs of etf_tracker.py, and of ledger.py, on one repository
MaxRuns == 2
\* number of CSV files main() processes in one run
MaxFiles == 2

\* ------------------------------------------------------------- characters
DigitChars == <<"0", "1", "2", "3", "4", "5", "6", "7", "8", "9">>

IsDigitChar(c) == \E k \in 1..10 : DigitChars[k] = c

DigitVal(c) == (CHOOSE k \in 1..10 : DigitChars[k] = c) - 1

\* str.isdigit(): non-empty and every character a digit
IsDigit(s) == Len(s) > 0 /\ \A k \in 1..Len(s) : IsDigitChar(s[k])

RECURSIVE DecDigits(_)
\* the decimal digits of n >= 0, no padding
DecDigits(n) == IF n < 10 THEN <<DigitChars[n + 1]>>
                ELSE DecDigits(n \div 10) \o <<DigitChars[(n % 10) + 1]>>

RECURSIVE ZeroPad(_, _)
\* str.zfill(w) on a digit string / the 0w of a format spec
ZeroPad(s, w) == IF Len(s) >= w THEN s ELSE ZeroPad(<<"0">> \o s, w)

\* f"{n:0wd}" for n >= 0
FmtInt(n, w) == ZeroPad(DecDigits(n), w)

RECURSIVE DigitsValue(_)
DigitsValue(s) == IF Len(s) = 0 THEN 0
                  ELSE 10 * DigitsValue(SubSeq(s, 1, Len(s) - 1)) + DigitVal(s[Len(s)])

\* a value or None / a raised exception, as a record
Val(v) == [ok |-> TRUE, val |-> v]

Raised(name) == [ok |-> FALSE, exc |-> name]

\* int(s) on a cell: the digits' value, ValueError otherwise
ParseInt(s) == IF IsDigit(s) THEN Val(DigitsValue(s)) ELSE Raised("ValueError")

\* float(s) on a cell: the number, ValueError otherwise
ParseFloat(s) == IF IsDigit(s) THEN Val(DigitsValue(s)) ELSE Raised("ValueError")

\* str.replace(",", "")
RemoveCommas(s) == SelectSeq(s, LAMBDA c : c # ",")

RECURSIVE StripLeft(_)
StripLeft(s) == IF Len(s) > 0 /\ s[1] = " " THEN StripLeft(Tail(s)) ELSE s

RECURSIVE StripRight(_)
StripRight(s) == IF Len(s) > 0 /\ s[Len(s)] = " "
                 THEN StripRight(SubSeq(s, 1, Len(s) - 1)) ELSE s

\* str.strip()
Strip(s) == StripRight(StripLeft(s))

IsPrefix(p, s) == Len(p) <= Len(s) /\ SubSeq(s, 1, Len(p)) = p

RECURSIVE Replace(_, _)
\* str.replace(pat, ""): every non-overlapping occurrence, left to right
Replace(s, pat) ==
    IF Len(s) = 0 THEN s
    ELSE IF IsPrefix(pat, s) THEN Replace(SubSeq(s, Len(pat) + 1, Len(s)), pat)
    ELSE <<s[1]>> \o Replace(Tail(s), pat)

RECURSIVE Split(_, _)
\* str.split(sep) for a one-character separator
Split(s, sep) ==
    IF \A k \in 1..Len(s) : s[k] # sep THEN <<s>>
    ELSE LET k == CHOOSE j \in 1..Len(s) : s[j] = sep /\ \A h \in 1..(j - 1) : s[h] # sep
         IN  <<SubSeq(s, 1, k - 1)>> \o Split(SubSeq(s, k + 1, Len(s)), sep)

\* ----------------------------------------------------------- _ensure_code
SuffixTW == <<".", "T", "W">>

SuffixTWO == <<".", "T", "W", "O">>

\* _ensure_code: strip, drop ".TW", then drop ".TWO", zero-fill digits to 4
ensure_code(s) ==
    LET t == Replace(Replace(Strip(s), SuffixTW), SuffixTWO)
    IN  IF IsDigit(t) THEN ZeroPad(t, 4) ELSE t

\* --------------------------------------------------------------- calendar
IsLeap(y) == (y % 4 = 0 /\ y % 100 # 0) \/ y % 400 = 0

DaysInMonth(y, m) ==
    IF m = 2 THEN (IF IsLeap(y) THEN 29 ELSE 28)
    ELSE IF m \in {4, 6, 9, 11} THEN 30 ELSE 31

\* datetime(y, m, d) accepts exactly these
ValidDate(y, m, d) ==
    /\ y \in 1..9999
    /\ m \in 1..12
    /\ d >= 1
    /\ d <= DaysInMonth(y, m)

PrevDay(dt) ==
    IF dt[3] > 1 THEN <<dt[1], dt[2], dt[3] - 1>>
    ELSE IF dt[2] > 1 THEN <<dt[1], dt[2] - 1, DaysInMonth(dt[1], dt[2] - 1)>>
    ELSE <<dt[1] - 1, 12, 31>>

RECURSIVE MinusDays(_, _)
\* target_date - timedelta(days=n)
MinusDays(dt, n) == IF n = 0 THEN dt ELSE MinusDays(PrevDay(dt), n - 1)

\* date.isoformat(), as the number YYYYMMDD
IsoKey(dt) == dt[1] * 10000 + dt[2] * 100 + dt[3]

\* ------------------------------------------------------------------ TWSE
\* An HTTP exchange with TWSE STOCK_DAY, as the script sees it:
\*   kind  "neterr"  requests.get raised (connection error, timeout)
\*         "non200"  a status other than 200
\*         "badjson" status 200, body not JSON (resp.json() raises)
\*         "notobj"  status 200, JSON that is not an object (a list)
\*         "object"  status 200, a JSON object with stat and data
\*   stat  the object's "stat" field
\*   shape "rows": "data" is an array of rows, held in data;
\*         "number": "data" is a number, as in {"data": 5}
TwseFailKinds == {"neterr", "non200", "badjson", "notobj"}

Slash == <<"/">>

\* the Minguo form counted from 1912 as year 0
RocDateStrFrom1912(dt) ==
    FmtInt(dt[1] - 1912, 3) \o Slash \o FmtInt(dt[2], 2) \o Slash \o FmtInt(dt[3], 2)

\* "YYY/MM/DD", the Minguo form TWSE and TPEx use
RocDateStr(dt) == FmtInt(dt[1] - 1911, 3) \o Slash \o FmtInt(dt[2], 2) \o Slash \o FmtInt(dt[3], 2)

\* "YYYY/MM/DD"
AdDateStr(dt) == FmtInt(dt[1], 4) \o Slash \o FmtInt(dt[2], 2) \o Slash \o FmtInt(dt[3], 2)

\* a number with a thousands separator, "1,008"
CommaStr(n) == IF n < 1000 THEN DecDigits(n)
               ELSE DecDigits(n \div 1000) \o <<",">> \o FmtInt(n % 1000, 3)

Dash == <<"-", "-">>

\* a STOCK_DAY row: date, volume, value, open, high, low, close, change, count
TwseRow(dateStr, closeStr) == <<dateStr, Dash, Dash, Dash, Dash, Dash, closeStr, Dash, Dash>>

\* the day itself as the date parameter
TwseDateParamOfDay(any_day) == any_day[1] * 10000 + any_day[2] * 100 + any_day[3]

\* requests' params of fetch_twse_month_json: date = first day of the month
TwseDateParam(any_day) == any_day[1] * 10000 + any_day[2] * 100 + 1

NoneV == [ok |-> TRUE, none |-> TRUE]

IsNone(r) == "none" \in DOMAIN r

\* the truth value of js.get("data")
DataTruthy(resp) == resp.shape = "number" \/ Len(resp.data) > 0

\* scripts/: every exception is caught, js is returned only with data
fetch_twse_month_json_scripts(resp) ==
    IF resp.kind \in TwseFailKinds THEN NoneV
    ELSE IF DataTruthy(resp) THEN Val(resp) ELSE NoneV

\* .github/scripts/: no try; stat containing "OK" is enough
fetch_twse_month_json_github(resp) ==
    IF resp.kind = "neterr" THEN Raised("RequestException")
    ELSE IF resp.kind = "non200" THEN NoneV
    ELSE IF resp.kind = "badjson" THEN Raised("JSONDecodeError")
    ELSE IF resp.kind = "notobj" THEN Raised("AttributeError")
    ELSE IF resp.stat = "OK" THEN Val(resp)
    ELSE IF DataTruthy(resp) THEN Val(resp) ELSE NoneV

fetch_twse_month_json(v, resp) ==
    IF v = "scripts" THEN fetch_twse_month_json_scripts(resp)
    ELSE fetch_twse_month_json_github(resp)

\* dtparser.parse(raw).astimezone(TPE_TZ) of the fallback branch (a cell that
\* does not split into three parts at "/"): "YYYY-MM-DD" is a date, text without
\* a date raises ParserError.  The machine's zone is taken not to move the date.
DtParseFallback(raw) ==
    LET parts == Split(raw, "-")
    IN  IF /\ Len(parts) = 3
           /\ \A k \in 1..3 : IsDigit(parts[k])
           /\ Len(parts[1]) = 4
           /\ ValidDate(DigitsValue(parts[1]), DigitsValue(parts[2]), DigitsValue(parts[3]))
        THEN [ok |-> TRUE, skip |-> FALSE,
              dt |-> <<DigitsValue(parts[1]), DigitsValue(parts[2]), DigitsValue(parts[3])>>]
        ELSE [ok |-> TRUE, skip |-> TRUE]

\* the date of a row's first cell in scripts/: the whole parse is in one try
RowDateScripts(raw_date) ==
    LET parts == Split(raw_date, "/")
    IN  IF Len(parts) = 3
        THEN LET y == ParseInt(parts[1])
                 m == ParseInt(parts[2])
                 d == ParseInt(parts[3])
             IN  IF ~(y.ok /\ m.ok /\ d.ok) THEN [ok |-> TRUE, skip |-> TRUE]
                 ELSE LET yy == IF y.val < 1911 THEN y.val + 1911 ELSE y.val
                      IN  IF ValidDate(yy, m.val, d.val)
                          THEN [ok |-> TRUE, skip |-> FALSE, dt |-> <<yy, m.val, d.val>>]
                          ELSE [ok |-> TRUE, skip |-> TRUE]
        ELSE DtParseFallback(raw_date)

\* the same in .github/scripts/: int(parts[0]) is outside the try
RowDateGithub(raw_date) ==
    LET parts == Split(raw_date, "/")
    IN  IF Len(parts) = 3
        THEN LET y == ParseInt(parts[1])
                 m == ParseInt(parts[2])
                 d == ParseInt(parts[3])
             IN  IF ~y.ok THEN Raised("ValueError")
                 ELSE IF ~(m.ok /\ d.ok) THEN [ok |-> TRUE, skip |-> TRUE]
                 ELSE LET yy == IF y.val < 1911 THEN y.val + 1911 ELSE y.val
                      IN  IF ValidDate(yy, m.val, d.val)
                          THEN [ok |-> TRUE, skip |-> FALSE, dt |-> <<yy, m.val, d.val>>]
                          ELSE [ok |-> TRUE, skip |-> TRUE]
        ELSE DtParseFallback(raw_date)

RowDate(v, raw_date) == IF v = "scripts" THEN RowDateScripts(raw_date) ELSE RowDateGithub(raw_date)

EmptyMap == <<>>

RECURSIVE ParseRows(_, _, _, _)
\* the loop of parse_twse_close_map over rows k..: out is the dict so far
ParseRows(v, data, k, out) ==
    IF k > Len(data) THEN Val(out)
    ELSE LET row == data[k]
         IN  IF Len(row) < 7 THEN ParseRows(v, data, k + 1, out)
             ELSE LET rd    == RowDate(v, Strip(row[1]))
                      close == ParseFloat(Strip(RemoveCommas(row[7])))
                  IN  IF ~rd.ok THEN rd
                      ELSE IF rd.skip \/ ~close.ok THEN ParseRows(v, data, k + 1, out)
                      ELSE ParseRows(v, data, k + 1, (IsoKey(rd.dt) :> close.val) @@ out)

\* parse_twse_close_map(js): { ISO key : close }, or the exception that escapes;
\* "for row in rows" over a number raises TypeError, outside every try
parse_twse_close_map(v, js) ==
    IF js.shape = "number" THEN Raised("TypeError") ELSE ParseRows(v, js.data, 1, EmptyMap)

\* ------------------------------------------------------------------ TPEx
\* An HTTP exchange with the TPEx daily-close download:
\*   kind  "neterr"  requests.get raised
\*         "non200"  a status other than 200
\*         "empty"   status 200, blank body
\*         "badcsv"  status 200, a body pandas cannot read
\*         "csv"     status 200, a table: columns (headers) and rows (cells)
\*   label the kind, or for a table "table" / "nocols" (headers the script
\*         does not know); the script never sees it
\* A header is a sequence of tokens, " " for a blank; the Chinese headers are
\* written in pinyin: ZhengQuanDaiHao, DaiHao, ShouPan, ShouPanJia.
TpexFailKinds == {"neterr", "non200", "empty", "badcsv"}

\* the query parameter d of fetch_tpex_daily_csv
TpexDateParam(date_dt) == RocDateStr(date_dt)

\* fetch_tpex_daily_csv with its try/except left out: a network error leaves it
fetch_tpex_daily_csv_notry(resp) ==
    IF resp.kind \in {"neterr", "badcsv"} THEN Raised("Exception")
    ELSE IF resp.kind \in TpexFailKinds THEN NoneV
    ELSE Val([columns |-> [k \in 1..Len(resp.columns) |-> Strip(resp.columns[k])],
              rows    |-> resp.rows])

\* fetch_tpex_daily_csv: the DataFrame with stripped headers, or None
fetch_tpex_daily_csv(resp) ==
    IF resp.kind \in TpexFailKinds THEN NoneV
    ELSE Val([columns |-> [k \in 1..Len(resp.columns) |-> Strip(resp.columns[k])],
              rows    |-> resp.rows])

CodeAliases == << <<"ZhengQuanDaiHao">>, <<"DaiHao">>, <<"Code">>, <<"Symbol">> >>

CloseAliases == << <<"ShouPan">>, <<"ShouPanJia">>, <<"Closing", " ", "Price">>, <<"Close">> >>

HasCol(columns, name) == \E k \in 1..Len(columns) : columns[k] = name

ColIndex(columns, name) ==
    CHOOSE k \in 1..Len(columns) : columns[k] = name /\ \A h \in 1..(k - 1) : columns[h] # name

\* the first header, in the table's order, that is one of the aliases
FirstAliasInHeader(aliases, columns) ==
    IF \E k \in 1..Len(columns) : HasCol(aliases, columns[k])
    THEN Val(columns[CHOOSE k \in 1..Len(columns) :
                        /\ HasCol(aliases, columns[k])
                        /\ \A h \in 1..(k - 1) : ~HasCol(aliases, columns[h])])
    ELSE NoneV

\* for c in aliases: if c in df.columns: col = c; break
FirstAlias(aliases, columns) ==
    IF \E a \in 1..Len(aliases) : HasCol(columns, aliases[a])
    THEN Val(aliases[CHOOSE a \in 1..Len(aliases) :
                        /\ HasCol(columns, aliases[a])
                        /\ \A b \in 1..(a - 1) : ~HasCol(columns, aliases[b])])
    ELSE NoneV

RECURSIVE BuildRowsNumericOnly(_, _, _, _, _)
\* a loop that also passes over the rows whose code is not all digits
BuildRowsNumericOnly(dfrows, k, ci, pi, out) ==
    IF k > Len(dfrows) THEN out
    ELSE LET c     == ensure_code(dfrows[k][ci])
             close == ParseFloat(RemoveCommas(dfrows[k][pi]))
         IN  IF ~close.ok \/ ~IsDigit(c) THEN BuildRowsNumericOnly(dfrows, k + 1, ci, pi, out)
             ELSE BuildRowsNumericOnly(dfrows, k + 1, ci, pi, (c :> close.val) @@ out)

RECURSIVE BuildRows(_, _, _, _, _)
\* the loop of build_tpex_code_close_map over df.iterrows()
BuildRows(dfrows, k, ci, pi, out) ==
    IF k > Len(dfrows) THEN out
    ELSE LET c     == ensure_code(dfrows[k][ci])
             close == ParseFloat(RemoveCommas(dfrows[k][pi]))
         IN  IF ~close.ok THEN BuildRows(dfrows, k + 1, ci, pi, out)
             ELSE BuildRows(dfrows, k + 1, ci, pi, (c :> close.val) @@ out)

\* build_tpex_code_close_map(df): { code : close }
build_tpex_code_close_map(df) ==
    LET code_col  == FirstAlias(CodeAliases, df.columns)
        close_col == FirstAlias(CloseAliases, df.columns)
    IN  IF IsNone(code_col) \/ IsNone(close_col) THEN EmptyMap
        ELSE BuildRows(df.rows, 1, ColIndex(df.columns, code_col.val),
                       ColIndex(df.columns, close_col.val), EmptyMap)

\* ---------------------------------------------------------------- inputs
\* The stocks of the runs: raw is the cell of the file's code column, cell the
\* code as the TPEx table shows it (pandas reads 0050 as the number 50), key
\* the stock's four-digit (or alphanumeric) market code.
StockList == <<
    [raw |-> <<"2", "3", "3", "0">>, cell |-> <<"2", "3", "3", "0">>,
     key |-> <<"2", "3", "3", "0">>],
    [raw |-> <<" ", "5", "0", ".", "T", "W">>, cell |-> <<"5", "0">>,
     key |-> <<"0", "0", "5", "0">>],
    [raw |-> <<"6", "5", "4", "7", ".", "T", "W", "O">>, cell |-> <<"6", "5", "4", "7">>,
     key |-> <<"6", "5", "4", "7">>],
    [raw |-> <<"0", "0", "9", "8", "1", "A">>, cell |-> <<"0", "0", "9", "8", "1", "A">>,
     key |-> <<"0", "0", "9", "8", "1", "A">>] >>

StockNos == 1..Len(StockList)

\* report date of the files: 1 March of a leap year, so that the days before
\* it lie in another month, of 29 days
Targets == {<<2024, 3, 1>>}

\* the close TWSE publishes for a day, and TPEx for stock n on a day
PriceA(dt) == 1000 + dt[3]

PriceB(n, dt) == 100 * n + dt[3]

RECURSIVE SetToSeq(_)
\* the numbers of S in increasing order
SetToSeq(S) == IF S = {} THEN <<>>
               ELSE LET x == CHOOSE y \in S : \A z \in S : y <= z
                    IN  <<x>> \o SetToSeq(S \ {x})

\* the days a monthly table may list: those of the requested month that lie in
\* tgt - (MaxBackLimit + 1) .. tgt
MonthDays(tgt, date_param) ==
    {d \in {MinusDays(tgt, k) : k \in 0..(MaxBackLimit + 1)} : TwseDateParam(d) = date_param}

DateOfKey(tgt, k) == CHOOSE d \in {MinusDays(tgt, j) : j \in 0..(MaxBackLimit + 1)} : IsoKey(d) = k

\* rows of the days S (ISO keys), the first in Minguo form, the others in AD form
TwseRows(tgt, S) ==
    LET ks == SetToSeq(S)
    IN  [j \in 1..Len(ks) |->
            LET d == DateOfKey(tgt, ks[j])
            IN  TwseRow(IF j = 1 THEN RocDateStr(d) ELSE AdDateStr(d), CommaStr(PriceA(d)))]

\* a note line, and a row of day d without a close ("--")
NoteRow == << <<"n", "o", "t", "e">> >>

NoCloseRow(d) == TwseRow(RocDateStr(d), Dash)

\* a row whose year is not a number
BadYearRow == TwseRow(<<"R", "O", "C", "/", "0", "9", "/", "0", "8">>, <<"1", "0">>)

TwseObject(stat, data, days) ==
    [kind |-> "object", stat |-> stat, shape |-> "rows", data |-> data, days |-> days]

\* the body {"stat": "none", "data": 5}
TwseNumberData ==
    [kind |-> "object", stat |-> "none", shape |-> "number", data |-> <<>>, days |-> {}]

\* what TWSE may answer to a request for the month date_param; days is the set
\* of ISO keys for which the answer holds a close
TwseResponses(tgt, date_param) ==
    LET md == {IsoKey(d) : d \in MonthDays(tgt, date_param)}
        Ss == {S \in SUBSET md : Cardinality(S) \in {1, 2}}
    IN  {[kind |-> k, stat |-> "", shape |-> "rows", data |-> <<>>, days |-> {}] :
            k \in TwseFailKinds}
        \cup {TwseObject("none", <<>>, {}), TwseObject("OK", <<>>, {}), TwseNumberData}
        \cup {TwseObject("OK", TwseRows(tgt, S), S) : S \in Ss}
        \cup {TwseObject("none", NoteRow \o TwseRows(tgt, S), S) : S \in Ss}
        \cup {TwseObject("OK", <<NoCloseRow(d)>> \o TwseRows(tgt, S), S) :
                  <<d, S>> \in {x \in MonthDays(tgt, date_param) \X Ss : IsoKey(x[1]) \notin x[2]}}
        \cup {TwseObject("OK", <<BadYearRow>> \o TwseRows(tgt, S), S) : S \in Ss}

TpexCsv(label, columns, dfrows, listed) ==
    [kind |-> "csv", label |-> label, columns |-> columns, rows |-> dfrows, listed |-> listed]

EnColumns == << <<" ", "Code">>, <<"Name">>, <<"Close", " ">> >>

ZhColumns == << <<"DaiHao">>, <<"ShouPan">> >>

OtherColumns == << <<"Ticker">>, <<"Last">> >>

\* rows of the stocks L (numbers) on day dt, three cells or two
EnRows(L, dt) ==
    LET ns == SetToSeq(L)
    IN  [j \in 1..Len(ns) |-> <<StockList[ns[j]].cell, <<"x">>, DecDigits(PriceB(ns[j], dt))>>]

ZhRows(L, dt) ==
    LET ns == SetToSeq(L)
    IN  [j \in 1..Len(ns) |-> <<StockList[ns[j]].cell, CommaStr(PriceB(ns[j], dt))>>]

\* what TPEx may answer for day dt when the file holds the stocks F; listed is
\* the set of stocks (numbers) whose close the answer holds under headers the
\* script knows
TpexResponses(F, dt) ==
    LET Ls == SUBSET F
    IN  {[kind |-> k, label |-> k, columns |-> <<>>, rows |-> <<>>, listed |-> {}] :
            k \in TpexFailKinds}
        \cup {TpexCsv("table", EnColumns, EnRows(L, dt), L) : L \in Ls}
        \cup {TpexCsv("table", ZhColumns,
                       <<<<StockList[1].cell, Dash>>>> \o ZhRows(F \ {1}, dt), F \ {1})}
        \cup {TpexCsv("nocols", OtherColumns, ZhRows(F, dt), {})}

Variants == {"scripts", "github"}

\* the days a run can inspect
RunDays == {MinusDays(t, k) : t \in Targets, k \in 0..MaxBackLimit}

\* lines 156-158 of get_close_price_for_code for one TWSE answer: whether an
\* exception left fetch or parse, and the table m ({} when js is None)
TwseOutcome(v, resp) ==
    LET js == fetch_twse_month_json(v, resp)
        m  == IF js.ok /\ ~IsNone(js) THEN parse_twse_close_map(v, js.val) ELSE Val(EmptyMap)
    IN  [raised |-> ~js.ok \/ ~m.ok, m |-> IF js.ok /\ m.ok THEN m.val ELSE EmptyMap]

\* lines 164-165 for one TPEx answer: whether an exception left the fetch,
\* whether df is None, and build_tpex_code_close_map(df)
TpexOutcome(resp) ==
    LET df == fetch_tpex_daily_csv(resp)
    IN  [raised |-> ~df.ok, none |-> df.ok /\ IsNone(df),
         snap |-> IF df.ok /\ ~IsNone(df) THEN build_tpex_code_close_map(df.val) ELSE EmptyMap]

\* The answers and their outcomes, tabulated (f @@ <<>> is f as a table).
TwsePool == [x \in Targets \X (0..MaxBackLimit) |->
                TwseResponses(x[1], TwseDateParam(MinusDays(x[1], x[2])))] @@ <<>>

TwseTable == [x \in Variants \X UNION {TwsePool[y] : y \in DOMAIN TwsePool} |->
                 TwseOutcome(x[1], x[2])] @@ <<>>

TpexPool == [x \in (SUBSET StockNos) \X RunDays |-> TpexResponses(x[1], x[2])] @@ <<>>

TpexTable == [r \in UNION {TpexPool[y] : y \in DOMAIN TpexPool} |-> TpexOutcome(r)] @@ <<>>

\* ---------------------------------------------------------------- actions
NoResult == [found |-> FALSE, price |-> 0, date |-> 0]

\* a return of the price without its date
FoundNoDate(price, dkey) == [found |-> TRUE, price |-> price, date |-> 0]

\* return m[dkey], dkey (line 159) and return mp[code], dkey (line 168)
Found(price, dkey) == [found |-> TRUE, price |-> price, date |-> dkey]

NoTarget == <<1912, 1, 1>>

\* day = target_date - timedelta(days=i)
Day(k) == MinusDays(target, k)

\* range(max_backdays + 2): one day too many
LoopRangeOneMore(n) == n + 2

\* range(max_backdays + 1)
LoopRange(n) == n + 1

\* a test against the compact form YYMMDD of the key, which m never holds
TwseHitCompact(m, dkey) == (dkey % 1000000) \in DOMAIN m

\* if dkey in m
TwseHit(m, dkey) == dkey \in DOMAIN m

\* "if not tpex_cache.get(dkey)" (negated): an empty snapshot counts as absent
CacheHasData(c, dkey) == dkey \in DOMAIN c /\ c[dkey] # EmptyMap

\* if dkey not in tpex_cache (negated)
CacheHas(c, dkey) == dkey \in DOMAIN c

\* a store that keeps only the frames that arrived
CacheStoreFrames(c, dkey, out) == IF out.none THEN c ELSE (dkey :> out.snap) @@ c

\* tpex_cache[dkey] = build_tpex_code_close_map(df) if df is not None else {}
CacheStore(c, dkey, out) == (dkey :> (IF out.none THEN EmptyMap ELSE out.snap)) @@ c

\* a lookup that takes the oldest day in the cache for the day asked for
CacheGetOldest(c, dkey) ==
    IF c = EmptyMap THEN EmptyMap ELSE c[CHOOSE k \in DOMAIN c : \A h \in DOMAIN c : k <= h]

\* tpex_cache.get(dkey, {})
CacheGet(c, dkey) == IF dkey \in DOMAIN c THEN c[dkey] ELSE EmptyMap

\* the TWSE part without its return: TPEx is asked even after a hit
AfterTwseNoReturn(raised, hit) == IF raised THEN "crashed" ELSE "tpex"

\* where a call goes after the TWSE part of an iteration
AfterTwse(raised, hit) == IF raised THEN "crashed" ELSE IF hit THEN "ret" ELSE "tpex"

\* a loop that goes on after a TPEx hit
AfterTpexNoReturn(raised, hit, k, n) ==
    IF raised THEN "crashed"
    ELSE IF k + 1 < LoopRange(n) THEN "twse" ELSE "ret"

\* where it goes after the TPEx part of iteration k
AfterTpex(raised, hit, k, n) ==
    IF raised THEN "crashed"
    ELSE IF hit THEN "ret"
    ELSE IF k + 1 < LoopRange(n) THEN "twse" ELSE "ret"

\* an entry that turns away a code that is not all digits
EntryPcValidating(c, n) == IF ~IsDigit(c) \/ ~(0 < n + 1) THEN "ret" ELSE "twse"

\* where a call starts: the loop's first iteration, or the return after it
EntryPc(c, n) == IF 0 < LoopRange(n) THEN "twse" ELSE "ret"

\* no row handled yet
\* one dictionary for all the files: process_csv would go on with the one it
\* is handed
NewCacheShared(c) == c

\* tpex_cache = {}: process_csv makes its own dictionary, whatever an earlier
\* call left
NewCache(c) == EmptyMap

NoRow == [old |-> 0, cell |-> 0, price |-> 0, date |-> 0]

\* a close the file already holds in a row
OldPrice == 7

\* a cell that takes every price the call returns
NewCellAlways(old, res, ow) == IF res.found THEN res.price ELSE old

\* the close cell of a row after lines 209-213: res is what the call returned,
\* old the cell before (0 for NA), ow is overwrite_same_day
NewCell(old, res, ow) == IF res.found /\ (old = 0 \/ ow) THEN res.price ELSE old

\* whether lines 209-213 set changed
RowChanged(old, res, ow) == res.found /\ (old = 0 \/ ow)

\* no function applied on its own
\* no process_csv call has ended yet
NoCsv == [written |-> FALSE, returned |-> FALSE]

\* a process_csv that saves the file whether or not a cell changed
ToCsvAlways(ch) == TRUE

\* lines 218-222: if changed: df.to_csv(path, ...)
ToCsv(ch) == ch

NoOut == [ok |-> FALSE, exc |-> "-"]

\* no manifest, no snapshot and no ledger file yet
DiskIdle ==
    /\ manifest = <<>>
    /\ snapshots = <<>>
    /\ ledger = EmptyMap

Init ==
    /\ DiskIdle
    /\ variant \in Variants
    /\ maxBack \in 0..MaxBackLimit
    /\ overwrite \in BOOLEAN
    /\ changed = FALSE
    /\ lastRow = NoRow
    /\ writes = 0
    /\ csvOut = NoCsv
    /\ fn = "run"
    /\ fnArg = <<>>
    /\ fnOut = NoOut
    /\ filesDone = 0
    /\ pc = "main"
    /\ target = NoTarget
    /\ rows = <<>>
    /\ codes = <<>>
    /\ idx = 0
    /\ cache = EmptyMap
    /\ code = <<>>
    /\ i = 0
    /\ result = NoResult
    /\ log = <<>>
    /\ twseCalls = 0
    /\ twseKind = "-"
    /\ tpexKind = "-"
    /\ fetchCount = EmptyMap
    /\ tpexListed = EmptyMap
    /\ fetchedEarlier = {}

\* main(): the next file of the list; process_csv up to its loop
ProcessCsv ==
    /\ pc = "main"
    /\ filesDone < MaxFiles
    /\ \E t \in Targets, n \in 0..MaxRows :
          \E r \in [1..n -> StockNos] :
             /\ target' = t
             /\ rows' = r
             /\ codes' = [k \in 1..n |-> ensure_code(StockList[r[k]].raw)]
    /\ idx' = 1
    /\ cache' = NewCache(cache)
    /\ pc' = "row"
    /\ changed' = FALSE
    /\ lastRow' = NoRow
    /\ writes' = 0
    /\ csvOut' = NoCsv
    /\ UNCHANGED <<diskVars, fn, fnArg, fnOut, overwrite, fetchedEarlier>>
    /\ UNCHANGED <<variant, maxBack, filesDone, code, i, result, log, twseCalls,
                   twseKind, tpexKind, fetchCount, tpexListed>>

\* process_csv's loop calls get_close_price_for_code for row idx
CallResolve ==
    /\ pc = "row"
    /\ idx <= Len(codes)
    /\ code' = ensure_code(codes[idx])
    /\ i' = 0
    /\ result' = NoResult
    /\ log' = <<>>
    /\ twseCalls' = 0
    /\ twseKind' = "-"
    /\ tpexKind' = "-"
    /\ pc' = EntryPc(ensure_code(codes[idx]), maxBack)
    /\ lastRow' = NoRow
    /\ UNCHANGED <<diskVars, fn, fnArg, fnOut, overwrite, changed, fetchedEarlier, writes, csvOut>>
    /\ UNCHANGED <<variant, maxBack, filesDone, target, rows, codes, idx, cache,
                   fetchCount, tpexListed>>

\* iteration i, part 1: the TWSE month table of day
QueryTwse ==
    /\ pc = "twse"
    /\ \E resp \in TwsePool[<<target, i>>] :
          LET dkey == IsoKey(Day(i))
              out  == TwseTable[<<variant, resp>>]
              hit  == ~out.raised /\ TwseHit(out.m, dkey)
          IN  /\ twseKind' = resp.kind
              /\ log' = Append(log, [src |-> "A", i |-> i, has |-> dkey \in resp.days,
                                     hit |-> hit, fetched |-> TRUE])
              /\ result' = IF hit THEN Found(out.m[dkey], dkey) ELSE result
              /\ pc' = AfterTwse(out.raised, hit)
    /\ twseCalls' = twseCalls + 1
    /\ tpexKind' = "-"
    /\ UNCHANGED <<diskVars, fn, fnArg, fnOut, overwrite, changed, lastRow, fetchedEarlier, writes,
                   csvOut>>
    /\ UNCHANGED <<variant, maxBack, filesDone, target, rows, codes, idx, cache, code, i,
                   fetchCount, tpexListed>>

\* the rest of iteration i once the cache is c2
TpexLookup(c2, raised, fetched, listed) ==
    LET dkey == IsoKey(Day(i))
        mp   == CacheGet(c2, dkey)
        hit  == ~raised /\ code \in DOMAIN mp
    IN  /\ log' = Append(log, [src |-> "B", i |-> i, has |-> rows[idx] \in listed,
                               hit |-> hit, fetched |-> fetched])
        /\ result' = IF hit THEN Found(mp[code], dkey) ELSE result
        /\ pc' = AfterTpex(raised, hit, i, maxBack)
        /\ i' = IF raised \/ hit THEN i ELSE i + 1

\* iteration i, part 2: the TPEx table of day, from the cache or fetched
QueryTpex ==
    /\ pc = "tpex"
    /\ LET dkey == IsoKey(Day(i))
       IN  IF CacheHas(cache, dkey)
           THEN /\ TpexLookup(cache, FALSE, FALSE, tpexListed[dkey])
                /\ tpexKind' = "cached"
                /\ UNCHANGED <<cache, fetchCount, tpexListed>>
           ELSE \E resp \in TpexPool[<<{rows[k] : k \in 1..Len(rows)}, Day(i)>>] :
                   LET out == TpexTable[resp]
                       c2  == IF out.raised THEN cache ELSE CacheStore(cache, dkey, out)
                   IN  /\ cache' = c2
                       /\ fetchCount' = (dkey :> (IF dkey \in DOMAIN fetchCount
                                                  THEN fetchCount[dkey] + 1 ELSE 1)) @@ fetchCount
                       /\ tpexListed' = (dkey :> resp.listed) @@ tpexListed
                       /\ tpexKind' = resp.label
                       /\ TpexLookup(c2, out.raised, TRUE, resp.listed)
    /\ twseKind' = "-"
    /\ UNCHANGED <<diskVars, fn, fnArg, fnOut, overwrite, changed, lastRow, fetchedEarlier, writes,
                   csvOut>>
    /\ UNCHANGED <<variant, maxBack, filesDone, target, rows, codes, idx, code, twseCalls>>

\* process_csv takes the returned price, fills the row's close cell and goes
\* to the next row; the call's locals are gone.  old is the cell the file came
\* with (line 206), chosen here, where it is first used.
HandleRow ==
    /\ pc = "ret"
    /\ \E old \in {0, OldPrice} :
          /\ lastRow' = [old |-> old, cell |-> NewCell(old, result, overwrite),
                         price |-> result.price, date |-> result.date]
          /\ changed' = (changed \/ RowChanged(old, result, overwrite))
          /\ writes' = writes + (IF NewCell(old, result, overwrite) # old THEN 1 ELSE 0)
    /\ UNCHANGED <<diskVars, fn, fnArg, fnOut, overwrite, fetchedEarlier, csvOut>>
    /\ idx' = idx + 1
    /\ pc' = "row"
    /\ code' = <<>>
    /\ i' = 0
    /\ result' = NoResult
    /\ log' = <<>>
    /\ twseCalls' = 0
    /\ twseKind' = "-"
    /\ tpexKind' = "-"
    /\ UNCHANGED <<variant, maxBack, filesDone, target, rows, codes, cache,
                   fetchCount, tpexListed>>

\* process_csv returns; its tpex_cache is gone with it
FinishCsv ==
    /\ pc = "row"
    /\ idx > Len(codes)
    /\ filesDone' = filesDone + 1
    /\ pc' = "main"
    /\ target' = NoTarget
    /\ rows' = <<>>
    /\ codes' = <<>>
    /\ idx' = 0
    /\ cache' = NewCache(cache)
    /\ fetchCount' = EmptyMap
    /\ tpexListed' = EmptyMap
    /\ fetchedEarlier' = fetchedEarlier \cup (DOMAIN fetchCount \cap {IsoKey(target)})
    /\ csvOut' = [written |-> ToCsv(changed), returned |-> changed]
    /\ UNCHANGED <<diskVars, fn, fnArg, fnOut, overwrite, changed, writes, lastRow>>
    /\ UNCHANGED <<variant, maxBack, code, i, result, log, twseCalls, twseKind, tpexKind>>

Next ==
    \/ ProcessCsv
    \/ CallResolve
    \/ QueryTwse
    \/ QueryTpex
    \/ HandleRow
    \/ FinishCsv

Spec == Init /\ [][Next]_vars

\* ------------------------------------------- functions applied on their own
\* the variables of a run of the script, idle while a function is applied
scriptVars == <<maxBack, filesDone, pc, target, rows, codes, idx, cache, code, i, result, log,
             twseCalls, twseKind, tpexKind, fetchCount, tpexListed, fetchedEarlier,
             overwrite, changed, lastRow, writes, csvOut>>

\* the variables idle while a function is applied
runVars == <<scriptVars, diskVars>>

ScriptIdle ==
    /\ maxBack = 0
    /\ filesDone = 0
    /\ pc = "fn"
    /\ target = NoTarget
    /\ rows = <<>>
    /\ codes = <<>>
    /\ idx = 0
    /\ cache = EmptyMap
    /\ code = <<>>
    /\ i = 0
    /\ result = NoResult
    /\ log = <<>>
    /\ twseCalls = 0
    /\ twseKind = "-"
    /\ tpexKind = "-"
    /\ fetchCount = EmptyMap
    /\ tpexListed = EmptyMap
    /\ fetchedEarlier = {}
    /\ overwrite = FALSE
    /\ changed = FALSE
    /\ lastRow = NoRow
    /\ writes = 0
    /\ csvOut = NoCsv

RunIdle ==
    /\ ScriptIdle
    /\ DiskIdle

\* the function has been applied
Applied == fnOut.ok \/ fnOut.exc # "-"

\* seq with x put after its first p elements
InsertAt(seq, p, x) == SubSeq(seq, 1, p) \o <<x>> \o SubSeq(seq, p + 1, Len(seq))

\* the day the rows of a parsed table are taken from, and its four last days
ParseTarget == <<2024, 3, 1>>

ParseDays == {IsoKey(MinusDays(ParseTarget, k)) : k \in 0..3}

\* rows parse_twse_close_map has to pass over: too short, a year that is not a
\* number, a month that does not exist, a cell that is no date, no close
ShortRow == <<RocDateStr(ParseTarget), Dash, Dash>>

BadMonthRow == TwseRow(<<"1", "1", "3", "/", "1", "3", "/", "0", "1">>, <<"1", "0">>)

NoDateRow == TwseRow(<<"n", "o", "t", "e">>, <<"1", "0">>)

MalformedRows ==
    [short |-> ShortRow, badyear |-> BadYearRow, badmonth |-> BadMonthRow,
     nodate |-> NoDateRow, noclose |-> NoCloseRow(ParseTarget)]

\* a STOCK_DAY object: the rows of the days S with one malformed row among them
ParseInputs ==
    {[kind |-> "object", stat |-> "OK", shape |-> "rows", days |-> S, bad |-> b,
      data |-> InsertAt(TwseRows(ParseTarget, S), p, MalformedRows[b])] :
        <<S, b, p>> \in {x \in (SUBSET ParseDays) \X (DOMAIN MalformedRows) \X (0..3) :
                            x[3] <= Cardinality(x[1])}}

\* the table TWSE's rows of the days S stand for
ExpectedTable(S) == [k \in S |-> PriceA(DateOfKey(ParseTarget, k))]

InitParse ==
    /\ variant \in Variants
    /\ RunIdle
    /\ fn = "parse_twse_close_map"
    /\ fnArg \in ParseInputs
    /\ fnOut = NoOut

ApplyParseTwse ==
    /\ fn = "parse_twse_close_map"
    /\ ~Applied
    /\ fnOut' = parse_twse_close_map(variant, fnArg)
    /\ UNCHANGED <<runVars, variant, fn, fnArg>>

NextParse ==
    \/ ApplyParseTwse

SpecParse == InitParse /\ [][NextParse]_vars

\* rows of a TPEx table: cell is the code cell, key the code it stands for,
\* text the close cell, price its value (0 when it is no number)
TpexRowKinds == <<
    [cell |-> <<"2", "3", "3", "0">>, key |-> <<"2", "3", "3", "0">>,
     text |-> <<"1", ",", "2", "3", "4">>, price |-> 1234],
    [cell |-> <<"5", "0">>, key |-> <<"0", "0", "5", "0">>,
     text |-> <<"5", "0">>, price |-> 50],
    [cell |-> <<"0", "0", "9", "8", "1", "A">>, key |-> <<"0", "0", "9", "8", "1", "A">>,
     text |-> <<"1", "2">>, price |-> 12],
    [cell |-> <<"6", "5", "4", "7">>, key |-> <<"6", "5", "4", "7">>,
     text |-> Dash, price |-> 0],
    [cell |-> <<"n", "o", "t", "e">>, key |-> <<"n", "o", "t", "e">>,
     text |-> Dash, price |-> 0] >>

\* the rows of one table, by kind: up to MaxTpexRows different ones in any order
MaxTpexRows == 3

RowChoices ==
    {q \in UNION {[1..n -> DOMAIN TpexRowKinds] : n \in 0..MaxTpexRows} :
        \A a, b \in DOMAIN q : a # b => q[a] # q[b]}

\* tables with the headers Code, Name, Close: kinds says what the rows are
RowInputs ==
    {[test |-> "rows", kinds |-> q,
      columns |-> [k \in 1..Len(EnColumns) |-> Strip(EnColumns[k])],
      rows |-> [r \in 1..Len(q) |-> <<TpexRowKinds[q[r]].cell, <<"x">>, TpexRowKinds[q[r]].text>>]] :
        q \in RowChoices}

\* the code in row r of the column headed by code alias a, and the close in
\* row r of the column headed by close alias b
AliasCode(a, r) == FmtInt(1000 * a + r, 4)

AliasClose(b, r) == 100 * b + r

Reverse(sq) == [k \in 1..Len(sq) |-> sq[Len(sq) + 1 - k]]

\* tables whose headers are the code aliases Ac and the close aliases Ap (by
\* position in the alias lists), in list order or the other way round
AliasInputs ==
    {LET hs == [k \in 1..(Cardinality(x[1]) + Cardinality(x[2])) |->
                   IF k <= Cardinality(x[1])
                   THEN [field |-> "code", alias |-> SetToSeq(x[1])[k]]
                   ELSE [field |-> "close", alias |-> SetToSeq(x[2])[k - Cardinality(x[1])]]]
         hd == IF x[3] THEN Reverse(hs) ELSE hs
     IN  [test |-> "alias", codeAliases |-> x[1], closeAliases |-> x[2], nrows |-> x[4],
          columns |-> [k \in 1..Len(hd) |-> IF hd[k].field = "code"
                                             THEN CodeAliases[hd[k].alias]
                                             ELSE CloseAliases[hd[k].alias]],
          rows |-> [r \in 1..x[4] |->
                      [k \in 1..Len(hd) |-> IF hd[k].field = "code"
                                            THEN AliasCode(hd[k].alias, r)
                                            ELSE DecDigits(AliasClose(hd[k].alias, r))]]] :
        x \in (SUBSET DOMAIN CodeAliases) \X (SUBSET DOMAIN CloseAliases) \X BOOLEAN \X (1..2)}

InitTpex ==
    /\ variant = "scripts"
    /\ RunIdle
    /\ fn = "build_tpex_code_close_map"
    /\ fnArg \in RowInputs \cup AliasInputs
    /\ fnOut = NoOut

ApplyBuildTpex ==
    /\ fn = "build_tpex_code_close_map"
    /\ ~Applied
    /\ fnOut' = Val(build_tpex_code_close_map(fnArg))
    /\ UNCHANGED <<runVars, variant, fn, fnArg>>

NextTpex ==
    \/ ApplyBuildTpex

SpecTpex == InitTpex /\ [][NextTpex]_vars

\* the digits codes are written with here
CodeDigits == {"0", "5", "7"}

\* longest run of digits of a code
MaxCodeLen == 4

Blank == <<" ">>

\* a code as a file may hold it: 1 to MaxCodeLen digits, then nothing, ".TW"
\* or ".TWO", with or without a blank before and after; s is the text
CodeInputs ==
    {[digits |-> x[1], suffix |-> x[2], lead |-> x[3], trail |-> x[4],
      s |-> (IF x[3] THEN Blank ELSE <<>>) \o x[1] \o x[2] \o (IF x[4] THEN Blank ELSE <<>>)] :
        x \in (UNION {[1..n -> CodeDigits] : n \in 1..MaxCodeLen})
                 \X {<<>>, SuffixTW, SuffixTWO} \X BOOLEAN \X BOOLEAN}

InitCode ==
    /\ variant \in Variants
    /\ RunIdle
    /\ fn = "_ensure_code"
    /\ fnArg \in CodeInputs
    /\ fnOut = NoOut

ApplyEnsureCode ==
    /\ fn = "_ensure_code"
    /\ ~Applied
    /\ fnOut' = Val(ensure_code(fnArg.s))
    /\ UNCHANGED <<runVars, variant, fn, fnArg>>

NextCode ==
    \/ ApplyEnsureCode

SpecCode == InitCode /\ [][NextCode]_vars

\* the characters of the texts _ensure_code is applied to twice
TextChars == {"1", " ", ".", "T", "W", "O"}

\* the cells of a code column: texts of up to MaxTextLen characters
TextInputs == UNION {[1..n -> TextChars] : n \in 0..MaxTextLen}

\* line 199, then line 150: the code as process_csv keeps it, and as
\* get_close_price_for_code looks it up
ApplyEnsureTwice ==
    /\ fn = "_ensure_code twice"
    /\ ~Applied
    /\ fnOut' = [ok |-> TRUE, exc |-> "-", once |-> ensure_code(fnArg),
                 twice |-> ensure_code(ensure_code(fnArg))]
    /\ UNCHANGED <<runVars, variant, fn, fnArg>>

InitTwice ==
    /\ variant \in Variants
    /\ RunIdle
    /\ fn = "_ensure_code twice"
    /\ fnArg \in TextInputs
    /\ fnOut = NoOut

NextTwice ==
    \/ ApplyEnsureTwice

SpecTwice == InitTwice /\ [][NextTwice]_vars

\* Gregorian dates: the first Minguo years, the present, the years around
\* 1911 + 1911, the last year of datetime; first and last days of the months
CalYears == {1912, 1913, 2024, 2025, 3821, 3822, 9999}

CalInputs ==
    {dt \in CalYears \X (1..12) \X {1, 28, 29, 30, 31} : ValidDate(dt[1], dt[2], dt[3])}

InitCal ==
    /\ variant \in Variants
    /\ RunIdle
    /\ fn = "roc_date"
    /\ fnArg \in CalInputs
    /\ fnOut = NoOut

\* the date fetch_tpex_daily_csv writes, read by parse_twse_close_map's rule
ApplyRocRoundTrip ==
    /\ fn = "roc_date"
    /\ ~Applied
    /\ fnOut' = RowDate(variant, RocDateStr(fnArg))
    /\ UNCHANGED <<runVars, variant, fn, fnArg>>

NextCal ==
    \/ ApplyRocRoundTrip

SpecCal == InitCal /\ [][NextCal]_vars

\* one TWSE part of an iteration on its own: the day target - k of a look-back
\* and any answer TWSE can give to its request
MonthInputs ==
    {[target |-> x[1], i |-> x[2], resp |-> r] :
        <<x, r>> \in {y \in (DOMAIN TwsePool) \X UNION {TwsePool[z] : z \in DOMAIN TwsePool} :
                         y[2] \in TwsePool[y[1]]}}

\* lines 152-160 for the day and the outcome of its TWSE request: the date
\* parameter sent, whether an exception left the part, whether dkey is in m,
\* and what is returned then
TwsePartOf(day, out) ==
    LET dkey == IsoKey(day)
        hit  == ~out.raised /\ TwseHit(out.m, dkey)
    IN  [ok |-> ~out.raised, exc |-> IF out.raised THEN "Exception" ELSE "-",
         param |-> TwseDateParam(day), hit |-> hit,
         result |-> IF hit THEN Found(out.m[dkey], dkey) ELSE NoResult]

\* iteration k of a call for the report date tgt, TWSE answering resp
TwsePart(v, tgt, k, resp) == TwsePartOf(MinusDays(tgt, k), TwseTable[<<v, resp>>])

InitMonth ==
    /\ variant \in Variants
    /\ RunIdle
    /\ fn = "twse_part"
    /\ fnArg \in MonthInputs
    /\ fnOut = NoOut

ApplyTwsePart ==
    /\ fn = "twse_part"
    /\ ~Applied
    /\ fnOut' = TwsePart(variant, fnArg.target, fnArg.i, fnArg.resp)
    /\ UNCHANGED <<runVars, variant, fn, fnArg>>

NextMonth ==
    \/ ApplyTwsePart

SpecMonth == InitMonth /\ [][NextMonth]_vars

\* ------------------------------------------------ one file, codes in two orders
\* --max-backdays of the batch
BatchBack == 1

\* what TWSE answers for one code on day target - k: a network error, or a
\* table that is empty or has the close of that day
BatchTwse(tgt, k) ==
    {r \in TwsePool[<<tgt, k>>] :
        \/ r.kind = "neterr"
        \/ r.kind = "object" /\ r.stat = "OK" /\ r.shape = "rows" /\ Len(r.data) <= 1
                             /\ r.days \subseteq {IsoKey(MinusDays(tgt, k))}}

\* what TPEx answers for day target - k to a file with the stocks F: a network
\* error, or a table of some of them
BatchTpex(tgt, F, k) ==
    {r \in TpexPool[<<F, MinusDays(tgt, k)>>] : r.kind = "neterr" \/ r.label = "table"}

\* the answers of the sources during one batch: they depend on the code and
\* the day asked for, not on the moment of the request
BatchInputs ==
    UNION {[target : {t}, back : {BatchBack}, stocks : {q},
            twse : [1..2 -> {f \in [0..BatchBack ->
                                         UNION {BatchTwse(t, k) : k \in 0..BatchBack}] :
                                     \A k \in 0..BatchBack : f[k] \in BatchTwse(t, k)}],
            tpex : {f \in [0..BatchBack ->
                               UNION {BatchTpex(t, {q[1], q[2]}, k) : k \in 0..BatchBack}] :
                       \A k \in 0..BatchBack : f[k] \in BatchTpex(t, {q[1], q[2]}, k)}] :
           t \in Targets, q \in {x \in StockNos \X StockNos : x[1] < x[2]}}

\* how a call ended: with an exception or a return value, and the cache it left
CallEnd(raised, res, cch) == [raised |-> raised, result |-> res, cache |-> cch]

RECURSIVE ResolveFrom(_, _, _, _, _)
\* lines 166-168 for row p of the file w on day target - k, the cache being c2
TpexStep(v, w, p, k, c2) ==
    LET dkey == IsoKey(MinusDays(w.target, k))
        mp   == CacheGet(c2, dkey)
        c    == ensure_code(ensure_code(StockList[w.stocks[p]].raw))
    IN  IF c \in DOMAIN mp THEN CallEnd(FALSE, Found(mp[c], dkey), c2)
        ELSE ResolveFrom(v, w, p, k + 1, c2)

\* lines 163-165: the day is not in the cache and tout is what TPEx gave
FetchStep(v, w, p, k, cch, tout) ==
    IF tout.raised THEN CallEnd(TRUE, NoResult, cch)
    ELSE TpexStep(v, w, p, k, CacheStore(cch, IsoKey(MinusDays(w.target, k)), tout))

\* lines 155-163: out is what fetch and parse made of the TWSE answer
TwseStep(v, w, p, k, cch, out) ==
    LET dkey == IsoKey(MinusDays(w.target, k))
    IN  IF out.raised THEN CallEnd(TRUE, NoResult, cch)
        ELSE IF TwseHit(out.m, dkey) THEN CallEnd(FALSE, Found(out.m[dkey], dkey), cch)
        ELSE IF CacheHas(cch, dkey) THEN TpexStep(v, w, p, k, cch)
        ELSE FetchStep(v, w, p, k, cch, TpexTable[w.tpex[k]])

\* get_close_price_for_code from iteration k on
ResolveFrom(v, w, p, k, cch) ==
    IF k >= LoopRange(w.back) THEN CallEnd(FALSE, NoResult, cch)
    ELSE TwseStep(v, w, p, k, cch, TwseTable[<<v, w.twse[p][k]>>])

\* process_csv's loop over the rows order (positions of the file), one cache
\* for all of them; it stops at the first call that raises.  first is the
\* outcome of the first row's call.
BatchAfter(v, w, order, first) ==
    IF first.raised THEN <<first>>
    ELSE <<first, ResolveFrom(v, w, order[2], 0, first.cache)>>

Batch(v, w, order) == BatchAfter(v, w, order, ResolveFrom(v, w, order[1], 0, NewCache(EmptyMap)))

ApplyBatch ==
    /\ fn = "process_csv"
    /\ ~Applied
    /\ fnOut' = [ok |-> TRUE, exc |-> "-",
                 alone    |-> [p \in 1..2 |-> ResolveFrom(variant, fnArg, p, 0, EmptyMap)],
                 forward  |-> Batch(variant, fnArg, <<1, 2>>),
                 backward |-> Batch(variant, fnArg, <<2, 1>>)]
    /\ UNCHANGED <<runVars, variant, fn, fnArg>>

InitBatch ==
    /\ variant \in Variants
    /\ RunIdle
    /\ fn = "process_csv"
    /\ fnArg \in BatchInputs
    /\ fnOut = NoOut

NextBatch ==
    \/ ApplyBatch

SpecBatch == InitBatch /\ [][NextBatch]_vars

\* ------------------------------------------------------- build_prices.py
\* the code cells a holdings file can carry, as written in the file
HoldingCells == {<<"2", "3", "3", "0">>, <<"0", "0", "5", "0">>, <<"6", "5", "4", "7">>,
                 <<"0", "0", "9", "8", "1", "A">>}

\* the codes an exchange table can carry: _extract_code_price_from_table keeps
\* only codes of four digits
MarketCodes == {<<"2", "3", "3", "0">>, <<"0", "0", "5", "0">>, <<"6", "5", "4", "7">>}

\* the codes Yahoo may know
YahooCodes == {<<"2", "3", "3", "0">>, <<"6", "5", "4", "7">>, <<"5", "0">>}

\* the close source n (1 TWSE, 2 TPEx, 3 Yahoo) gives for a code
SourceClose(n, c) == 1000 * n + DigitsValue(SelectSeq(c, IsDigitChar))

PriceRow(n, c) == [code |-> c, close |-> SourceClose(n, c)]

\* pd.read_csv without dtype: a column whose cells are all digits is read as
\* integers, any other column as the strings of the file
ReadCsvColumn(cells) ==
    IF \A k \in 1..Len(cells) : IsDigit(cells[k])
    THEN [k \in 1..Len(cells) |-> DecDigits(DigitsValue(cells[k]))]
    ELSE cells

\* Series.unique(): the first occurrence of each value, in order
Unique(sq) == SelectSeq([k \in 1..Len(sq) |-> IF \E h \in 1..(k - 1) : sq[h] = sq[k]
                                              THEN <<>> ELSE <<sq[k]>>],
                        LAMBDA x : x # <<>>)

Flatten1(sq) == [k \in 1..Len(sq) |-> sq[k][1]]

\* line 152: the holdings' codes as main() gets them
HoldingCodes(cells) ==
    LET col == ReadCsvColumn(cells)
    IN  Flatten1(Unique([k \in 1..Len(col) |-> Strip(col[k])]))

\* DataFrame.drop_duplicates("股票代號"): the first row of each code
DropDuplicates(px) ==
    Flatten1(SelectSeq([k \in 1..Len(px) |-> IF \E h \in 1..(k - 1) : px[h].code = px[k].code
                                             THEN <<>> ELSE <<px[k]>>],
                       LAMBDA x : x # <<>>))

CodesOf(px) == {px[k].code : k \in 1..Len(px)}

CharRank(c) == IF IsDigitChar(c) THEN DigitVal(c) ELSE 10

RECURSIVE StrLess(_, _)
\* a < b for Python strings of digits and capital letters
StrLess(a, b) ==
    IF Len(b) = 0 THEN FALSE
    ELSE IF Len(a) = 0 THEN TRUE
    ELSE IF a[1] # b[1] THEN CharRank(a[1]) < CharRank(b[1])
    ELSE StrLess(Tail(a), Tail(b))

RECURSIVE Sorted(_)
\* sorted(S) for a set of strings
Sorted(S) == IF S = {} THEN <<>>
             ELSE LET x == CHOOSE y \in S : \A z \in S \ {y} : StrLess(y, z)
                  IN  <<x>> \o Sorted(S \ {x})

\* _fetch_yahoo(codes, date_str): a row for each code Yahoo has a close for
fetch_yahoo(miss, has) ==
    LET got == SelectSeq(miss, LAMBDA c : c \in has)
    IN  [k \in 1..Len(got) |-> PriceRow(3, got[k])]

\* line 156: pd.concat([twse, tpex])
Concat(twse, tpex) == twse \o tpex

\* main(), lines 152-170, for the holdings' code cells, the tables _fetch_twse
\* and _fetch_tpex returned and the codes Yahoo has: the rows saved and the
\* codes Yahoo was asked for
build_prices_main(cells, twse, tpex, has) ==
    LET hcodes == HoldingCodes(cells)
        cset   == {hcodes[k] : k \in 1..Len(hcodes)}
        px    == DropDuplicates(Concat(twse, tpex))
        miss  == Sorted(cset \ CodesOf(px))
        px2   == IF miss # <<>> THEN DropDuplicates(px \o fetch_yahoo(miss, has)) ELSE px
    IN  [ok |-> TRUE, exc |-> "-",
         px |-> SelectSeq(px2, LAMBDA r : r.code \in cset),
         asked |-> {miss[k] : k \in 1..Len(miss)}]

RECURSIVE SeqsUpTo(_, _)
\* the sequences over S of length at most n
SeqsUpTo(S, n) == IF n = 0 THEN {<<>>}
                  ELSE LET shorter == SeqsUpTo(S, n - 1)
                       IN  shorter \cup {Append(sq, x) : sq \in shorter, x \in S}

PricesInputs ==
    {[cells |-> x[1],
      twse  |-> [k \in 1..Len(x[2]) |-> PriceRow(1, x[2][k])],
      tpex  |-> [k \in 1..Len(x[3]) |-> PriceRow(2, x[3][k])],
      yahoo |-> x[4]] :
        x \in (SeqsUpTo(HoldingCells, MaxHoldings) \ {<<>>}) \X SeqsUpTo(MarketCodes, 2)
              \X SeqsUpTo(MarketCodes, 2) \X SUBSET YahooCodes}

InitPrices ==
    /\ variant = "scripts"
    /\ RunIdle
    /\ fn = "build_prices.main"
    /\ fnArg \in PricesInputs
    /\ fnOut = NoOut

ApplyBuildPrices ==
    /\ fn = "build_prices.main"
    /\ ~Applied
    /\ fnOut' = build_prices_main(fnArg.cells, fnArg.twse, fnArg.tpex, fnArg.yahoo)
    /\ UNCHANGED <<runVars, variant, fn, fnArg>>

NextPrices ==
    \/ ApplyBuildPrices

SpecPrices == InitPrices /\ [][NextPrices]_vars

\* ------------------------------------------------- build_change_table.py
\* for _ in range(90): the days _load_prices_for goes back
FallbackDays == 90

\* Days are counted back from the requested date: 0 is the date itself, k the
\* day k days before it, -1 the day after it.  The files of the runs lie on
\* these days.
FileDays == {-1, 0, 1, FallbackDays, FallbackDays + 1}

\* what glob finds in the archive for one day, in sorted order: TRUE for a
\* workbook whose with_prices sheet can be read with both columns
ArchiveKinds == {<<>>, <<TRUE>>, <<FALSE>>, <<TRUE, FALSE>>}

NoPrices == [ok |-> TRUE, exc |-> "-", src |-> "none", back |-> 0]

\* lines 89-98 and 113-122: cands[-1] is read, and the day counts only when
\* that succeeds
ArchiveReadable(cands) == cands # <<>> /\ cands[Len(cands)]

\* one day of _load_prices_for (lines 78-98, 105-122): prices/<d>.csv if it
\* exists, else the archive workbook of d
PricesOfDay(k, csv, xlsx) ==
    IF k \in csv THEN [ok |-> TRUE, exc |-> "-", src |-> "csv", back |-> k]
    ELSE IF k \in DOMAIN xlsx /\ ArchiveReadable(xlsx[k])
         THEN [ok |-> TRUE, exc |-> "-", src |-> "xlsx", back |-> k]
    ELSE NoPrices

RECURSIVE FallbackFrom(_, _, _)
\* lines 101-125: the loop, at the day k back
FallbackFrom(k, csv, xlsx) ==
    IF k > FallbackDays THEN NoPrices
    ELSE IF PricesOfDay(k, csv, xlsx).src # "none" THEN PricesOfDay(k, csv, xlsx)
    ELSE FallbackFrom(k + 1, csv, xlsx)

\* _load_prices_for(date_str): where the prices come from
load_prices_for(csv, xlsx) ==
    IF PricesOfDay(0, csv, xlsx).src # "none" THEN PricesOfDay(0, csv, xlsx)
    ELSE FallbackFrom(1, csv, xlsx)

LoadInputs == {[csv |-> c, xlsx |-> x] : c \in SUBSET FileDays, x \in [FileDays -> ArchiveKinds]}

InitLoad ==
    /\ variant = "scripts"
    /\ RunIdle
    /\ fn = "_load_prices_for"
    /\ fnArg \in LoadInputs
    /\ fnOut = NoOut

ApplyLoadPrices ==
    /\ fn = "_load_prices_for"
    /\ ~Applied
    /\ fnOut' = load_prices_for(fnArg.csv, fnArg.xlsx)
    /\ UNCHANGED <<runVars, variant, fn, fnArg>>

NextLoad ==
    \/ ApplyLoadPrices

SpecLoad == InitLoad /\ [][NextLoad]_vars

\* ---------------------------------------------------------- etf_tracker.py
\* the rows _extract_table can return: 股票代號, 股數 and 持股權重, the weight in
\* ten-millionths of a percent
HoldingRows == [code   : {<<"2", "3", "3", "0">>, <<"2", "4", "5", "4">>},
                shares : {1000, 2000},
                weight : {50000001, 50000004, 50000012}]

\* the tables a run can download
HoldingsTables == SeqsUpTo(HoldingRows, MaxHoldings)

\* line 288: round(6), a weight in millionths of a percent
Round6(w) == (w + 5) \div 10

RECURSIVE SortValues(_)
\* line 289: sort_values("股票代號"), which compares the codes only: rows of
\* one code keep the order they have in df
SortValues(df) ==
    IF df = <<>> THEN <<>>
    ELSE LET k == CHOOSE j \in 1..Len(df) :
                      /\ \A h \in 1..Len(df) : ~StrLess(df[h].code, df[j].code)
                      /\ \A h \in 1..(j - 1) : df[h].code # df[j].code
         IN  <<df[k]>> \o SortValues(SubSeq(df, 1, k - 1) \o SubSeq(df, k + 1, Len(df)))

\* _hash_df: the SHA-256 of the CSV text of the key columns, rounded and
\* sorted; the digest is taken to be one-to-one on the texts, so it is written
\* as the rows of that text
hash_df(df) ==
    SortValues([k \in 1..Len(df) |->
                   [code |-> df[k].code, shares |-> df[k].shares,
                    weight |-> Round6(df[k].weight)]])

\* _last_snapshot_hash: the hash column of the last record, None without one
last_snapshot_hash(mf) == IF mf = <<>> THEN NoneV ELSE Val(mf[Len(mf)].hash)

\* _append_manifest
append_manifest(mf, record) == Append(mf, record)

\* lines 361-390 of main, for the table df of the run
EtfTrackerMain ==
    /\ fn = "etf_tracker.main"
    /\ Len(manifest) < MaxRuns
    /\ \E df \in HoldingsTables :
           LET h == hash_df(df)
               is_new == Val(h) # last_snapshot_hash(manifest)
           IN  /\ snapshots' = IF is_new THEN Append(snapshots, h) ELSE snapshots
               /\ manifest' = append_manifest(manifest,
                                  [rows |-> Len(df), hash |-> h,
                                   is_new_snapshot |-> IF is_new THEN "1" ELSE "0"])
               /\ fnArg' = Append(fnArg, df)
    /\ UNCHANGED <<scriptVars, ledger, variant, fn, fnOut>>

\* successive runs of etf_tracker.py; fnArg collects the tables they extracted
InitSnap ==
    /\ variant = "scripts"
    /\ ScriptIdle
    /\ DiskIdle
    /\ fn = "etf_tracker.main"
    /\ fnArg = <<>>
    /\ fnOut = NoOut

NextSnap ==
    \/ EtfTrackerMain

SpecSnap == InitSnap /\ [][NextSnap]_vars

\* ------------------------------------------------------------------ ledger.py
\* line 10
SMALL_DELTA_SHARES == 1

\* the code cells of data/YYYY-MM-DD.csv, as written in the file
LedgerCells == {<<"2", "3", "3", "0">>, <<"0", "0", "5", "0">>, <<"0", "0", "9", "8", "1", "A">>}

\* its 股數 cells: a number, or empty (None)
SharesCells == {Val(0), Val(1000), Val(2000), NoneV}

\* the files update_ledgers can be given
LedgerTables == SeqsUpTo([code : LedgerCells, shares : SharesCells], MaxHoldings)

\* line 41: int(r["股數"]); the empty cell is read as NaN and int(nan) raises
IntOfCell(cell) == IF IsNone(cell) THEN Raised("ValueError") ELSE Val(cell.val)

\* a loader that reads the first row of the file
load_latest_first(lg, c) == IF c \in DOMAIN lg THEN lg[c][1].shares ELSE 0

\* _load_latest: the shares of the last row of ledger/{code}.csv, 0 without
\* the file (the cost columns of the ledger do not enter its share columns and
\* are left out)
load_latest(lg, c) == IF c \in DOMAIN lg THEN lg[c][Len(lg[c])].shares ELSE 0

\* _append_ledger
append_ledger(lg, c, row) ==
    (c :> (IF c \in DOMAIN lg THEN Append(lg[c], row) ELSE <<row>>)) @@ lg

\* lines 45-48
DeltaShares(shares_t, shares_prev) ==
    LET delta == shares_t - shares_prev
    IN  IF (IF delta < 0 THEN -delta ELSE delta) < SMALL_DELTA_SHARES THEN 0 ELSE delta

\* lines 54-74: the note of the row
NoteOf(delta) == IF delta > 0 THEN "buy_est_close"
                 ELSE IF delta < 0 THEN "sell_avg_cost" ELSE "hold"

RECURSIVE UpdateRows(_, _, _, _)
\* the loop of update_ledgers over the rows k.. of df: keys are the codes as
\* pd.read_csv read them, lg the ledger files so far
UpdateRows(lg, keys, df, k) ==
    IF k > Len(df) THEN [ok |-> TRUE, exc |-> "-", files |-> lg]
    ELSE LET shares_t == IntOfCell(df[k].shares)
         IN  IF ~shares_t.ok THEN [ok |-> FALSE, exc |-> shares_t.exc, files |-> lg]
             ELSE LET shares_prev == load_latest(lg, keys[k])
                      delta       == DeltaShares(shares_t.val, shares_prev)
                  IN  IF shares_prev = 0 /\ shares_t.val = 0
                      THEN UpdateRows(lg, keys, df, k + 1)
                      ELSE UpdateRows(append_ledger(lg, keys[k],
                                          [shares |-> shares_t.val, delta_shares |-> delta,
                                           note |-> NoteOf(delta)]),
                                      keys, df, k + 1)

\* update_ledgers(today_csv, date_str)
update_ledgers(lg, df) ==
    UpdateRows(lg, ReadCsvColumn([k \in 1..Len(df) |-> df[k].code]), df, 1)

\* one call of update_ledgers; fnArg collects the files of the calls
UpdateLedgers ==
    /\ fn = "update_ledgers"
    /\ Len(fnArg) < MaxRuns
    /\ \E df \in LedgerTables :
           LET out == update_ledgers(ledger, df)
           IN  /\ ledger' = out.files
               /\ fnOut' = [ok |-> out.ok, exc |-> out.exc]
               /\ fnArg' = Append(fnArg, df)
    /\ UNCHANGED <<scriptVars, manifest, snapshots, variant, fn>>

InitLedger ==
    /\ variant = "scripts"
    /\ ScriptIdle
    /\ DiskIdle
    /\ fn = "update_ledgers"
    /\ fnArg = <<>>
    /\ fnOut = NoOut

NextLedger ==
    \/ UpdateLedgers

SpecLedger == InitLedger /\ [][NextLedger]_vars

\* ----------------------------------------------------------------- claims
\* a call of get_close_price_for_code is under way or has just ended
InCall == pc \in {"twse", "tpex", "ret", "crashed"}

Last(sq) == sq[Len(sq)]

RECURSIVE SumOver(_, _)
SumOver(f, S) == IF S = {} THEN 0
                 ELSE LET x == CHOOSE y \in S : TRUE IN f[x] + SumOver(f, S \ {x})

\* TPEx requests sent since process_csv created its cache
TpexFetches == SumOver(fetchCount, DOMAIN fetchCount)

\* the TPEx answer stored for the day of iteration j lists the row's stock
BHolds(j) ==
    LET k == IsoKey(Day(j)) IN k \in DOMAIN tpexListed /\ rows[idx] \in tpexListed[k]

\* C1: while one file is processed (one tpex_cache), TPEx is asked at most once
\* for each ISO date, whatever the code and the call, and also when the first
\* answer was empty or a failure: every date asked for stays in the cache.
C1_OneFetchPerDate ==
    \A k \in DOMAIN fetchCount : fetchCount[k] <= 1 /\ k \in DOMAIN cache

\* a second call has been served, for a date whose fetch had failed, from the
\* empty snapshot in the cache
C1_Witness ==
    /\ pc \in {"twse", "ret"}
    /\ idx = 2
    /\ log # <<>>
    /\ Last(log).src = "B"
    /\ ~Last(log).fetched
    /\ LET k == IsoKey(Day(Last(log).i))
       IN  k \in DOMAIN cache /\ cache[k] = EmptyMap /\ fetchCount[k] = 1

\* the position in the loop, counted down: 0 outside it
LoopMeasure ==
    IF pc = "twse" THEN 2 * (maxBack + 1 - i)
    ELSE IF pc = "tpex" THEN 2 * (maxBack + 1 - i) - 1
    ELSE 0

\* C2: a call inspects at most max_backdays + 1 days and sends at most
\* max_backdays + 1 TWSE requests, and it terminates: every step inside the
\* loop brings it nearer to the end.
C2_BoundedLoop ==
    /\ [](/\ twseCalls <= maxBack + 1
          /\ Cardinality({log[k].i : k \in DOMAIN log}) <= maxBack + 1
          /\ (pc \in {"twse", "tpex"} => i <= maxBack)
          /\ LoopMeasure >= 0)
    /\ [][(pc \in {"twse", "tpex"}) => (LoopMeasure > LoopMeasure')]_vars

\* a call that used every day of the largest look-back and ended
C2_Witness ==
    /\ pc = "ret"
    /\ maxBack = MaxBackLimit
    /\ twseCalls = maxBack + 1
    /\ Cardinality({log[k].i : k \in DOMAIN log}) = maxBack + 1

\* C3: while one file is processed, with every call sharing target and
\* max_backdays, the TPEx requests number at most max_backdays + 1, however
\* many codes are resolved.
C3_BatchFetchBound == TpexFetches <= maxBack + 1

\* the file's second code ran through every day after the first had made all
\* the fetches
C3_Witness ==
    /\ pc = "ret"
    /\ idx = 2
    /\ maxBack >= 1
    /\ Len(log) = 2 * (maxBack + 1)
    /\ TpexFetches = maxBack + 1

\* C4: when the TWSE table holds the day and the TPEx snapshot of the same day
\* holds the code, a call that reached that day without raising returns the
\* TWSE close of that day, never the TPEx one.
C4_SourceAPriority ==
    (InCall /\ pc # "crashed") =>
        \A k \in DOMAIN log :
            (log[k].src = "A" /\ log[k].has /\ BHolds(log[k].i))
                => LET d == Day(log[k].i) IN result = Found(PriceA(d), IsoKey(d))

\* TWSE answered with the day while the cache, filled by an earlier call, holds
\* the code for that day
C4_Witness ==
    /\ pc = "ret"
    /\ idx = 2
    /\ log # <<>>
    /\ Last(log).src = "A"
    /\ Last(log).has
    /\ BHolds(Last(log).i)
    /\ result.found

\* the call's answer is the close of the nearest day either source holds, or
\* nothing when no inspected day has one
ResultIsNearest ==
    IF result.found
    THEN /\ log # <<>>
         /\ Last(log).has
         /\ \A k \in 1..(Len(log) - 1) : ~log[k].has
         /\ LET d == Day(Last(log).i)
            IN  result = Found(IF Last(log).src = "A" THEN PriceA(d) ELSE PriceB(rows[idx], d),
                               IsoKey(d))
    ELSE /\ \A k \in DOMAIN log : ~log[k].has
         /\ Len(log) = 2 * (maxBack + 1)

\* C5: a call returns the price of the day target - i with the smallest i in
\* 0..max_backdays for which TWSE or TPEx holds the code, with that day's date.
C5_NearestDay == pc \in {"ret", "crashed"} => pc = "ret" /\ ResultIsNearest

\* C6 (scripts/ copy): the call raises nothing, and when no inspected day has
\* the code in either source it returns (None, None) after max_backdays + 1
\* days.
C6_NoDataReturnsNone ==
    variant = "scripts" =>
        /\ pc # "crashed"
        /\ (pc = "ret" /\ \A k \in DOMAIN log : ~log[k].has)
               => result = NoResult /\ Len(log) = 2 * (maxBack + 1)

\* C7: the sources are consulted day by day, TWSE before TPEx on each day, and
\* a consultation happens only after every earlier one found nothing: day
\* i + 1 is opened only after both sources missed on day i.
C7_SourceOrder ==
    InCall =>
        \A k \in DOMAIN log :
            /\ log[k].src = (IF k % 2 = 1 THEN "A" ELSE "B")
            /\ log[k].i = (k - 1) \div 2
            /\ (k < Len(log) => ~log[k].hit)

\* TPEx of the day before the target answered after three misses
C7_Witness ==
    /\ pc = "ret"
    /\ Len(log) = 4
    /\ log[4].hit
    /\ log[4].fetched

\* C8: whatever goes wrong with a TWSE request (network error, status other
\* than 200, a body that is not JSON or not an object), the call goes on to
\* TPEx for the same day.
C8_TwseFailureAbsorbed == twseKind \in TwseFailKinds => pc = "tpex"

\* every failure of a TPEx fetch the script can meet
TpexFailLabels == TpexFailKinds \cup {"nocols"}

\* C9: when a TPEx fetch fails (network error, status other than 200, empty
\* body, unreadable CSV, unknown headers) the empty snapshot is stored for that
\* date, nothing is raised, and the call goes on to the next day or, after the
\* last day, returns nothing.
C9_TpexFailureCachedEmpty ==
    tpexKind \in TpexFailLabels =>
        /\ pc \in {"twse", "ret"}
        /\ i >= 1
        /\ LET k == IsoKey(Day(i - 1))
           IN  k \in DOMAIN cache /\ cache[k] = EmptyMap
        /\ (i <= maxBack => pc = "twse")
        /\ (i > maxBack => pc = "ret" /\ result = NoResult)

\* a network error on the target day, and the call is on its way to the day
\* before
C9_Witness ==
    /\ tpexKind = "neterr"
    /\ pc = "twse"
    /\ i = 1
    /\ cache[IsoKey(Day(0))] = EmptyMap

\* C10 as stated: a code that is not numeric after the suffixes are stripped
\* is turned away before the loop, with no request to either source.
C10_InvalidCodeRejected ==
    (InCall /\ ~IsDigit(code)) => twseCalls = 0 /\ log = <<>>

\* C10, as the code has it: such a code is passed on as it is and resolved
\* like any other: TWSE is asked on every day inspected, TPEx is consulted on
\* every day TWSE lacks, and nothing is returned only after max_backdays + 1
\* days.
C10_InvalidCodeResolved ==
    (InCall /\ ~IsDigit(code)) =>
        /\ code = codes[idx]
        /\ (pc # "twse" => twseCalls >= 1)
        /\ (pc = "ret" => log # <<>>)
        /\ (pc = "ret" /\ ~result.found)
               => twseCalls = maxBack + 1 /\ Len(log) = 2 * (maxBack + 1)

\* the code "00981A" got its close from the TPEx table
C10_Witness ==
    /\ pc = "ret"
    /\ ~IsDigit(code)
    /\ code = StockList[4].key
    /\ result.found
    /\ Last(log).src = "B"
    /\ Last(log).fetched

\* C11: parse_twse_close_map over one malformed row (too short, a date that
\* does not parse such as a year that is not a number, a close that does not
\* parse) among N valid rows of distinct dates returns the table of exactly
\* those N rows and raises nothing.
C11_MalformedRowSkipped ==
    (fn = "parse_twse_close_map" /\ Applied) =>
        fnOut.ok /\ fnOut.val = ExpectedTable(fnArg.days)

BuiltRows == fn = "build_tpex_code_close_map" /\ Applied /\ fnArg.test = "rows"

\* C12 as stated: build_tpex_code_close_map passes over every row whose code is
\* not numeric or whose close does not parse, so every key of the snapshot is a
\* numeric code.
C12_KeysNumeric ==
    BuiltRows => \A k \in DOMAIN fnOut.val : IsDigit(k)

\* C12, as the code has it: only the rows whose close does not parse are
\* passed over; every other row is in the snapshot under its code as
\* _ensure_code returns it, numeric or not, with its close.
C12_RowsKeptByPrice ==
    BuiltRows =>
        LET kept == {r \in DOMAIN fnArg.kinds : TpexRowKinds[fnArg.kinds[r]].price > 0}
        IN  /\ DOMAIN fnOut.val = {TpexRowKinds[fnArg.kinds[r]].key : r \in kept}
            /\ \A r \in kept : fnOut.val[TpexRowKinds[fnArg.kinds[r]].key]
                                  = TpexRowKinds[fnArg.kinds[r]].price

\* a table with the row of "00981A", a row without a close and a numeric row:
\* the snapshot holds "00981A" and the numeric code
C12_Witness ==
    /\ BuiltRows
    /\ {fnArg.kinds[r] : r \in DOMAIN fnArg.kinds} = {1, 3, 4}
    /\ TpexRowKinds[3].key \in DOMAIN fnOut.val
    /\ TpexRowKinds[4].key \notin DOMAIN fnOut.val

\* digits with zeros in front, four characters in all
FourDigits(digits) == [k \in 1..(4 - Len(digits)) |-> "0"] \o digits

\* C13: for 1 to 4 digits, with or without the suffix .TW or .TWO and blanks
\* around, _ensure_code returns exactly the digits padded with zeros on the
\* left to 4 characters.
C13_FourDigitCode ==
    (fn = "_ensure_code" /\ Applied) => fnOut.val = FourDigits(fnArg.digits)

\* C14: process_csv replaces a close cell that holds a value only when
\* overwrite_same_day is set and the price returned is of the target day
\* itself; a price of an earlier day does not replace a value.
C14_OverwriteOnlySameDay ==
    (pc = "row" /\ lastRow.old # 0 /\ lastRow.cell # lastRow.old)
        => overwrite /\ lastRow.date = IsoKey(target)

RoundTripped == fn = "roc_date" /\ Applied

NoData == \A k \in DOMAIN log : ~log[k].has

\* the call went through all max_backdays + 1 days: as many TWSE requests, and
\* every day in the cache after exactly one TPEx fetch since the cache was made
FullScan ==
    /\ result = NoResult
    /\ twseCalls = maxBack + 1
    /\ Len(log) = 2 * (maxBack + 1)
    /\ \A j \in 0..maxBack :
          LET k == IsoKey(Day(j))
          IN  k \in DOMAIN cache /\ k \in DOMAIN fetchCount /\ fetchCount[k] = 1

\* C16 (scripts/ copy): when no source has the code on any day of the window,
\* a call with max_backdays = N ends after exactly N + 1 iterations and N + 1
\* TWSE requests, and the cache then holds each of the N + 1 days, each fetched
\* from TPEx exactly once since the cache was created.
C16_NoDataFullScan ==
    (variant = "scripts" /\ pc \in {"ret", "crashed"} /\ NoData) => pc = "ret" /\ FullScan

\* C17: tpex_cache is made empty by each process_csv call and no entry of one
\* file is seen while the next is processed: every entry of the cache was
\* fetched since this call began, so a date may be fetched again for the next
\* file, and within one file it is fetched at most once.
C17_CachePerFile ==
    /\ [](/\ DOMAIN cache \subseteq DOMAIN fetchCount
          /\ \A k \in DOMAIN fetchCount : fetchCount[k] <= 1
          /\ (pc = "main" => cache = EmptyMap))
    /\ [][(pc = "main" /\ pc' = "row") => cache' = EmptyMap]_vars

\* the report date, asked for while the first file was processed, has been
\* fetched again, once, for the second
C17_Witness ==
    /\ filesDone = 1
    /\ pc \in {"twse", "ret"}
    /\ log # <<>>
    /\ Last(log).src = "B"
    /\ Last(log).fetched
    /\ LET k == IsoKey(Day(Last(log).i))
       IN  k \in fetchedEarlier /\ fetchCount[k] = 1 /\ k \in DOMAIN cache

BuiltAlias == fn = "build_tpex_code_close_map" /\ Applied /\ fnArg.test = "alias"

MinOf(S) == CHOOSE x \in S : \A y \in S : x <= y

\* C18: the code column and the close column are each the first alias of the
\* ordered alias list that is among the table's headers, wherever the headers
\* stand and however many aliases are present; when either field has no alias
\* among the headers the snapshot is empty.
C18_FirstAliasWins ==
    BuiltAlias =>
        IF fnArg.codeAliases = {} \/ fnArg.closeAliases = {}
        THEN fnOut.val = EmptyMap
        ELSE LET a == MinOf(fnArg.codeAliases)
                 b == MinOf(fnArg.closeAliases)
             IN  /\ DOMAIN fnOut.val = {AliasCode(a, r) : r \in 1..fnArg.nrows}
                 /\ \A r \in 1..fnArg.nrows : fnOut.val[AliasCode(a, r)] = AliasClose(b, r)

\* two aliases of each field are among the headers, the later ones first in
\* the table, and the snapshot is read from the earlier ones
C18_Witness ==
    /\ BuiltAlias
    /\ fnArg.codeAliases = {2, 4}
    /\ fnArg.closeAliases = {1, 3}
    /\ fnArg.columns[1] = CloseAliases[3]
    /\ fnArg.nrows = 2
    /\ fnOut.val = (AliasCode(2, 1) :> AliasClose(1, 1)) @@ (AliasCode(2, 2) :> AliasClose(1, 2))

\* C20: iteration i asks TWSE for the month of the day target - i, with the
\* first day of that month as date parameter, also when the day lies in the
\* month before the target's; it is a hit only when the table holds that very
\* day, the price returned is that day's, and a table that holds only other
\* days of the month gives nothing.
C20_ExactDayOfMonth ==
    (fn = "twse_part" /\ Applied) =>
        LET d    == MinusDays(fnArg.target, fnArg.i)
            dkey == IsoKey(d)
        IN  /\ fnOut.param = (dkey \div 100) * 100 + 1
            /\ fnOut.hit => /\ dkey \in fnArg.resp.days
                            /\ fnOut.result = Found(PriceA(d), dkey)
            /\ dkey \notin fnArg.resp.days => ~fnOut.hit /\ fnOut.result = NoResult

\* the day before 1 March: the February table was asked for, it held the 28th
\* and not the 29th, and nothing was returned
C20_Witness ==
    /\ fn = "twse_part"
    /\ fnOut.ok
    /\ fnArg.target = <<2024, 3, 1>>
    /\ fnArg.i = 1
    /\ fnArg.resp.days = {20240228}
    /\ fnOut.param = 20240201
    /\ ~fnOut.hit

\* C21: a row for which the call returned no price keeps its close cell as it
\* was, a value or NA; and a process_csv call that changed no cell does not
\* save the file and returns False.
C21_NoPriceNoChange ==
    /\ (pc \in {"row", "main"} /\ lastRow.price = 0) => lastRow.cell = lastRow.old
    /\ (pc = "main" /\ filesDone > 0 /\ writes = 0)
           => ~csvOut.written /\ ~csvOut.returned

\* a file whose last row held a close and got no price: the close is still
\* there, nothing was saved, False was returned
C21_Witness ==
    /\ pc = "main"
    /\ filesDone = 1
    /\ lastRow.old = OldPrice
    /\ lastRow.price = 0
    /\ lastRow.cell = OldPrice
    /\ writes = 0
    /\ csvOut = [written |-> FALSE, returned |-> FALSE]

\* C22: without overwrite_same_day a close cell that holds a value is never
\* changed, whatever the call returned; only a cell that was NA receives a
\* price.
C22_ValueKeptWithoutFlag ==
    (~overwrite /\ pc \in {"row", "main"}) =>
        /\ lastRow.old # 0 => lastRow.cell = lastRow.old
        /\ lastRow.cell # lastRow.old => lastRow.old = 0 /\ lastRow.cell = lastRow.price

\* the call returned a price for a row that already held a close, and the
\* close is still there
C22_Witness ==
    /\ ~overwrite
    /\ pc = "row"
    /\ lastRow.old = OldPrice
    /\ lastRow.price > 0
    /\ lastRow.cell = OldPrice

BuiltPrices == fn = "build_prices.main" /\ Applied

\* the close saved for the code c, 0 when no row has it
SavedClose(c) ==
    IF \E k \in 1..Len(fnOut.px) : fnOut.px[k].code = c
    THEN fnOut.px[CHOOSE k \in 1..Len(fnOut.px) : fnOut.px[k].code = c].close
    ELSE 0

\* what C23 has saved for the holdings' code h
PriorityClose(h) ==
    IF h \in CodesOf(fnArg.twse) THEN SourceClose(1, h)
    ELSE IF h \in CodesOf(fnArg.tpex) THEN SourceClose(2, h)
    ELSE IF h \in fnArg.yahoo THEN SourceClose(3, h)
    ELSE 0

\* the output has one row at most for a code and only the given codes
OneRowPerCode(H) ==
    /\ \A k, h \in 1..Len(fnOut.px) : fnOut.px[k].code = fnOut.px[h].code => k = h
    /\ CodesOf(fnOut.px) \subseteq H

\* C23: for each code of the holdings file build_prices saves TWSE's close if
\* TWSE has the code, otherwise TPEx's; Yahoo is asked only for codes of the
\* file that neither has; the output has one row at most for a code and only
\* codes of the holdings file.
C23_SourcePriority ==
    BuiltPrices =>
        LET H == {Strip(fnArg.cells[k]) : k \in 1..Len(fnArg.cells)}
        IN  /\ \A h \in H : SavedClose(h) = PriorityClose(h)
            /\ fnOut.asked \subseteq {h \in H : h \notin CodesOf(fnArg.twse) \cup CodesOf(fnArg.tpex)}
            /\ OneRowPerCode(H)

LoadedPrices == fn = "_load_prices_for" /\ Applied

\* the day k back has prices: its prices CSV exists or one of its archive
\* workbooks can be read
DayHasPrices(k) ==
    k \in fnArg.csv \/ \E j \in 1..Len(fnArg.xlsx[k]) : fnArg.xlsx[k][j]

\* C24: _load_prices_for takes the requested date if it has a prices CSV or a
\* readable archive workbook, otherwise the nearest of the 90 days before it
\* that has one, the prices CSV before the archive on the same day; it returns
\* the empty table only when no day of these 91 has either, and never takes a
\* later day.
C24_NearestPricesFile ==
    LoadedPrices =>
        LET has == {k \in FileDays : k >= 0 /\ k <= FallbackDays /\ DayHasPrices(k)}
        IN  IF has = {}
            THEN fnOut.src = "none"
            ELSE /\ fnOut.back = MinOf(has)
                 /\ fnOut.src = (IF fnOut.back \in fnArg.csv THEN "csv" ELSE "xlsx")

\* the rows of a and b are the same holdings, whatever their order
SameHoldings(a, b) ==
    /\ Len(a) = Len(b)
    /\ \A r \in HoldingRows :
           Cardinality({k \in 1..Len(a) : a[k] = r}) = Cardinality({k \in 1..Len(b) : b[k] = r})

\* C25: every run of etf_tracker appends exactly one manifest record; the
\* record has is_new_snapshot = 1, and a snapshot is saved, exactly when the
\* hash of the holdings differs from the hash of the last manifest record; so
\* the second of two consecutive runs with the same holdings, in any row
\* order, saves no snapshot.
C25_SnapshotDedup ==
    fn = "etf_tracker.main" =>
        /\ Len(manifest) = Len(fnArg)
        /\ \A k \in 1..Len(manifest) :
               (manifest[k].is_new_snapshot = "1")
                   <=> (k = 1 \/ manifest[k].hash # manifest[k - 1].hash)
        /\ snapshots = [k \in 1..Len(snapshots) |->
                           SelectSeq(manifest, LAMBDA m : m.is_new_snapshot = "1")[k].hash]
        /\ Len(snapshots) = Len(SelectSeq(manifest, LAMBDA m : m.is_new_snapshot = "1"))
        /\ \A k \in 2..Len(manifest) :
               SameHoldings(fnArg[k - 1], fnArg[k]) => manifest[k].is_new_snapshot = "0"

RECURSIVE SumDelta(_)
SumDelta(lrows) == IF lrows = <<>> THEN 0
                   ELSE lrows[1].delta_shares + SumDelta(Tail(lrows))

\* the shares of the row before row k of a ledger file
SharesBefore(lrows, k) == IF k = 1 THEN 0 ELSE lrows[k - 1].shares

\* the rows of the last file given to update_ledgers, under the codes as read
LastKeys == ReadCsvColumn([k \in 1..Len(fnArg[Len(fnArg)]) |-> fnArg[Len(fnArg)][k].code])

\* C26: after any sequence of update_ledgers calls, for every code the shares
\* of the last ledger row are the sum of delta_shares over its rows, every
\* row's delta_shares is its shares minus the shares of the row before, no
\* row was appended with previous and current shares both 0, and after a call
\* that ended normally the last row of a code holds the shares its last row of
\* the day's file gave.
C26_LedgerConsistent ==
    fn = "update_ledgers" =>
        /\ \A c \in DOMAIN ledger :
               /\ ledger[c][Len(ledger[c])].shares = SumDelta(ledger[c])
               /\ \A k \in 1..Len(ledger[c]) :
                      /\ ledger[c][k].delta_shares
                             = ledger[c][k].shares - SharesBefore(ledger[c], k)
                      /\ ~(ledger[c][k].shares = 0 /\ SharesBefore(ledger[c], k) = 0)
        /\ (fnArg # <<>> /\ fnOut.ok) =>
               \A k \in 1..Len(LastKeys) :
                   (\A h \in (k + 1)..Len(LastKeys) : LastKeys[h] # LastKeys[k]) =>
                       load_latest(ledger, LastKeys[k]) = fnArg[Len(fnArg)][k].shares.val

\* two calls have bought, then sold part of, one code
C26_Witness ==
    /\ fn = "update_ledgers"
    /\ Len(fnArg) = 2
    /\ \E c \in DOMAIN ledger :
           /\ Len(ledger[c]) = 2
           /\ ledger[c][1].delta_shares = 2000
           /\ ledger[c][2].delta_shares = -1000
           /\ ledger[c][2].shares = 1000

\* C27: get_close_price_for_code returns (None, None), or a price together
\* with a date; the date is one of the days target - max_backdays .. target,
\* the day of the consultation that hit, and the price is the close the
\* source that hit holds for the code on that day.
C27_ResultWellFormed ==
    pc = "ret" =>
        IF result.found
        THEN /\ result.price # 0
             /\ result.date # 0
             /\ result.date \in {IsoKey(Day(j)) : j \in 0..maxBack}
             /\ log # <<>>
             /\ Last(log).hit
             /\ Last(log).has
             /\ LET d == Day(Last(log).i)
                IN  /\ result.date = IsoKey(d)
                    /\ result.price = (IF Last(log).src = "A" THEN PriceA(d)
                                       ELSE PriceB(rows[idx], d))
        ELSE result = NoResult

\* TPEx held the code on the last day of the window, two days before the
\* report date
C27_Witness ==
    /\ pc = "ret"
    /\ maxBack = 2
    /\ result.found
    /\ Last(log).src = "B"
    /\ result.date = IsoKey(Day(maxBack))
    /\ result.price = PriceB(rows[idx], Day(maxBack))

\* what the caller sees of a call: the exception or the value returned
Seen(e) == [raised |-> e.raised, result |-> e.result]

\* C28: while the answers of the sources do not change, a call gives the same
\* result with the cache the earlier calls of the batch left as with an empty
\* cache, so the result of a code does not depend on the order in which the
\* codes of the file are resolved.
C28_CacheTransparent ==
    (fn = "process_csv" /\ Applied) =>
        /\ Seen(fnOut.forward[1]) = Seen(fnOut.alone[1])
        /\ Seen(fnOut.backward[1]) = Seen(fnOut.alone[2])
        /\ Len(fnOut.forward) = 2 => Seen(fnOut.forward[2]) = Seen(fnOut.alone[2])
        /\ Len(fnOut.backward) = 2 => Seen(fnOut.backward[2]) = Seen(fnOut.alone[1])

\* the second code was found in the snapshot the first call had stored, on the
\* day before the report date
C28_Witness ==
    /\ fn = "process_csv"
    /\ Applied
    /\ Len(fnOut.forward) = 2
    /\ fnOut.forward[1].cache # EmptyMap
    /\ fnOut.forward[2].cache = fnOut.forward[1].cache
    /\ fnOut.forward[2].result.found
    /\ fnOut.forward[2].result.date = IsoKey(MinusDays(fnArg.target, 1))
    /\ fnOut.forward[1].result # fnOut.forward[2].result

\* one step of a run, seen from the cache and the requests
LazyStep ==
    \* entries stay as they are while a file is processed
    /\ (pc # "main" /\ pc' # "main") =>
           \A k \in DOMAIN cache : k \in DOMAIN cache' /\ cache'[k] = cache[k]
    \* a TPEx request, or a new entry, comes only in the TPEx part of a day
    \* that TWSE has just been asked for and lacked, and it is for that day
    /\ (pc' # "main" /\ (fetchCount' # fetchCount \/ DOMAIN cache' # DOMAIN cache)) =>
           /\ pc = "tpex"
           /\ log # <<>>
           /\ Last(log).src = "A"
           /\ Last(log).i = i
           /\ ~Last(log).hit
           /\ ~Last(log).has
           /\ IsoKey(Day(i)) \notin DOMAIN cache
           /\ DOMAIN cache' \subseteq DOMAIN cache \cup {IsoKey(Day(i))}
           /\ DOMAIN fetchCount' = DOMAIN fetchCount \cup {IsoKey(Day(i))}
           /\ Last(log').src = "B" /\ Last(log').i = i /\ Last(log').fetched
    \* after a hit the call has returned: no request, no entry, and nothing
    \* was asked for a day before the day of the hit
    /\ (log # <<>> /\ Last(log).hit) =>
           /\ pc = "ret"
           /\ \A k \in DOMAIN log : log[k].i <= Last(log).i
           /\ cache' = cache
           /\ fetchCount' = fetchCount
           /\ log' = <<>>
           /\ twseCalls' = 0

\* C29: TPEx is fetched, and a cache entry made, for a day only when TWSE
\* lacked that day for the code being resolved; after a hit on day i the call
\* sends no further request and adds no entry for a day before day i; entries
\* of the cache are never overwritten or removed while the file is processed.
C29_LazyFetch == [][LazyStep]_vars

\* the file's second call hit in a TPEx table it fetched for the day before
\* the report date, and the day before that one was never asked for
C29_Witness ==
    /\ pc = "ret"
    /\ idx = 2
    /\ maxBack = 2
    /\ result.found
    /\ Last(log).src = "B"
    /\ Last(log).fetched
    /\ Last(log).i = 1
    /\ DOMAIN cache = {IsoKey(Day(0)), IsoKey(Day(1))}

\* C30: _ensure_code is idempotent: for every text s, applying it to its own
\* result changes nothing, so the code get_close_price_for_code looks up is
\* the code one normalisation gives.
C30_EnsureCodeIdempotent ==
    (fn = "_ensure_code twice" /\ Applied) => fnOut.twice = fnOut.once

====
